---- MODULE Spec2Model ----
(***************************************************************************)
(* Model of the review pipeline of AI_Code_Review_Assistant:               *)
(*   app/rules.py     the rule engine (run_all_rules and its detectors)    *)
(*   app/reviewer.py  the LLM gateway (call_llm, _call_*, _parse_llm_output)*)
(*                    and the orchestrator (review_pr)                     *)
(*   app/models.py    the Issue / ReviewSummary / ReviewOutput schemas     *)
(*                                                                         *)
(* Text is modelled at token level.  A diff is a sequence of runs of equal *)
(* lines, a line is a sequence of tokens; an LLM response is a sequence of *)
(* tokens (whitespace, fence, language tag, JSON value, other text).       *)
(* Confidences are scaled by 100 (0.7 is 70).  Exceptions are result kinds.*)
(***************************************************************************)
EXTENDS Integers, Sequences, FiniteSets, TLC

(***************************************************************************)
(* Bounds of the model                                                     *)
(***************************************************************************)
MaxItems == 2
MaxLLMItems == 2
MaxRuns == 2

(***************************************************************************)
(* Generic helpers                                                         *)
(***************************************************************************)
None == "<None>"

SeqsUpTo(S, n) == UNION {[1..k -> S] : k \in 0..n}

RECURSIVE Sum(_)
Sum(s) == IF s = <<>> THEN 0 ELSE Head(s) + Sum(Tail(s))

\* str.startswith(prefix) on token sequences
StartsWith(s, p) == Len(s) >= Len(p) /\ SubSeq(s, 1, Len(p)) = p

(***************************************************************************)
(* app/models.py: Issue                                                    *)
(***************************************************************************)
Severities == {"low", "medium", "high"}
Actions == {"review", "ignore"}

\* line_number is <<>> for None and <<n>> for the integer n; file_path is not modelled
MkIssue(type, severity, message, confidence, action, line_number) ==
    [type |-> type, severity |-> severity, message |-> message,
     confidence |-> confidence, action |-> action, line_number |-> line_number]

(***************************************************************************)
(* app/rules.py: diffs and detectors                                       *)
(* A diff is a sequence of runs [toks, rep]: the line toks repeated rep    *)
(* times, so diff.split('\n') is the expansion of the runs.  The tokens    *)
(* "+" and "-" are single characters, " " is whitespace, the others are    *)
(* fragments of code.  A regular expression is modelled by the set of      *)
(* fragments it matches (matches spanning two lines are not modelled).     *)
(***************************************************************************)
SIZE_THRESHOLD == 500
COMPLEXITY_THRESHOLD == 100

\* number of lines of the diff in the runs selected
LineCount(diff, runs) ==
    Sum([i \in DOMAIN diff |-> IF i \in runs THEN diff[i].rep ELSE 0])

IsChangedLine(line) ==
    /\ (StartsWith(line, <<"+">>) \/ StartsWith(line, <<"-">>))
    /\ ~(StartsWith(line, <<"+", "+", "+">>) \/ StartsWith(line, <<"-", "-", "-">>))

IsAddedLine(line) ==
    StartsWith(line, <<"+">>) /\ ~StartsWith(line, <<"+", "+", "+">>)

\* variant: >= for > at the threshold
check_pr_size_AtThreshold(diff) ==
    LET lines_changed == LineCount(diff, {i \in DOMAIN diff : IsChangedLine(diff[i].toks)})
    IN  IF lines_changed >= SIZE_THRESHOLD
        THEN <<MkIssue("pr_size", "medium", <<"PR has", ToString(lines_changed), "lines changed">>, 100, "review", <<>>)>>
        ELSE <<>>

check_pr_size(diff) ==
    LET lines_changed == LineCount(diff, {i \in DOMAIN diff : IsChangedLine(diff[i].toks)})
    IN  IF lines_changed > SIZE_THRESHOLD
        THEN <<MkIssue("pr_size", "medium", <<"PR has", ToString(lines_changed), "lines changed">>, 100, "review", <<>>)>>
        ELSE <<>>

\* dangerous_patterns, in dictionary (insertion) order
SecurityPatterns == <<"eval", "exec", "pickle", "password", "api_key", "secret">>

PatternMessage(p) ==
    CASE p = "eval" -> <<"Use of eval() detected">>
      [] p = "exec" -> <<"Use of exec() detected">>
      [] p = "pickle" -> <<"Use of pickle detected - consider safer alternatives">>
      [] p = "password" -> <<"Possible hardcoded password">>
      [] p = "api_key" -> <<"Possible hardcoded API key">>
      [] p = "secret" -> <<"Possible hardcoded secret">>

PatternSeverity(p) == IF p = "pickle" THEN "medium" ELSE "high"

\* the fragments of the model that the pattern matches under re.IGNORECASE
PatternMatches(p) ==
    CASE p = "eval" -> {"eval(", "EVAL ("}
      [] p = "exec" -> {"exec("}
      [] p = "pickle" -> {"pickle.load(", "pickle.loads("}
      [] p = "password" -> {"password = 'x'", "secret_password = 'x'"}
      [] p = "api_key" -> {"api_key = 'x'", "API-KEY='x'", "apikey = 'x'"}
      [] p = "secret" -> {"secret = 'x'"}

\* variant: a pattern that also matches the empty text
SearchDiff_MatchesEmpty(diff, frags) ==
    \/ \E i \in DOMAIN diff : \E j \in DOMAIN diff[i].toks : diff[i].toks[j] \in frags
    \/ \E i \in DOMAIN diff : diff[i].toks = <<>>

\* re.search over the whole diff
SearchDiff(diff, frags) ==
    \E i \in DOMAIN diff : \E j \in DOMAIN diff[i].toks : diff[i].toks[j] \in frags

\* variant: the loop ends at the first pattern that matches
RECURSIVE SecurityScan_StopAtFirst(_, _)
SecurityScan_StopAtFirst(diff, pats) ==
    IF pats = <<>> THEN <<>>
    ELSE LET p == Head(pats)
         IN  IF SearchDiff(diff, PatternMatches(p))
             THEN <<MkIssue("security", PatternSeverity(p), PatternMessage(p), 100, "review", <<>>)>>
             ELSE SecurityScan_StopAtFirst(diff, Tail(pats))

RECURSIVE SecurityScan(_, _)
SecurityScan(diff, pats) ==
    IF pats = <<>> THEN <<>>
    ELSE LET p == Head(pats)
         IN  (IF SearchDiff(diff, PatternMatches(p))
              THEN <<MkIssue("security", PatternSeverity(p), PatternMessage(p), 100, "review", <<>>)>>
              ELSE <<>>) \o SecurityScan(diff, Tail(pats))

check_security_patterns(diff) == SecurityScan(diff, SecurityPatterns)

\* the fragments that r'from\s+\S+\s+import\s+\*' matches
StarImports == {"from utils import *"}

\* variant: the detector suggests "ignore"
check_import_quality_Ignore(diff) ==
    IF SearchDiff(diff, StarImports)
    THEN <<MkIssue("style", "low", <<"Star import (import *) detected. Consider explicit imports.">>, 90, "ignore", <<>>)>>
    ELSE <<>>

\* variant: one issue for each line with a star import (findall for search)
check_import_quality_PerLine(diff) ==
    LET n == LineCount(diff, {i \in DOMAIN diff :
                                \E j \in DOMAIN diff[i].toks : diff[i].toks[j] \in StarImports})
    IN  [k \in 1..n |-> MkIssue("style", "low", <<"Star import (import *) detected. Consider explicit imports.">>, 90, "review", <<>>)]

check_import_quality(diff) ==
    IF SearchDiff(diff, StarImports)
    THEN <<MkIssue("style", "low", <<"Star import (import *) detected. Consider explicit imports.">>, 90, "review", <<>>)>>
    ELSE <<>>

\* re.match(r'^\+\s*def\s+\w+\s*\(', line)
RECURSIVE SkipSpaces(_)
SkipSpaces(toks) ==
    IF toks # <<>> /\ Head(toks) = " " THEN SkipSpaces(Tail(toks)) ELSE toks

IsFunctionDefLine(line) ==
    /\ StartsWith(line, <<"+">>)
    /\ StartsWith(SkipSpaces(Tail(line)), <<"def f(">>)

IsAddedFunctionDef(line) == IsAddedLine(line) /\ IsFunctionDefLine(line)

\* variant: >= 1 for == 1 on the number of definitions
check_code_complexity_AtLeastOne(diff) ==
    IF LineCount(diff, {i \in DOMAIN diff : IsAddedLine(diff[i].toks)}) > COMPLEXITY_THRESHOLD
       /\ LineCount(diff, {i \in DOMAIN diff : IsAddedFunctionDef(diff[i].toks)}) >= 1
    THEN <<MkIssue("complexity", "medium", <<"Large function detected (>100 lines). Consider breaking into smaller functions.">>, 80, "review", <<>>)>>
    ELSE <<>>

check_code_complexity(diff) ==
    IF LineCount(diff, {i \in DOMAIN diff : IsAddedLine(diff[i].toks)}) > COMPLEXITY_THRESHOLD
       /\ LineCount(diff, {i \in DOMAIN diff : IsAddedFunctionDef(diff[i].toks)}) = 1
    THEN <<MkIssue("complexity", "medium", <<"Large function detected (>100 lines). Consider breaking into smaller functions.">>, 80, "review", <<>>)>>
    ELSE <<>>

\* variant: the registry lists the security check first
run_all_rules_SecurityFirst(diff) ==
    check_security_patterns(diff) \o check_pr_size(diff)
        \o check_import_quality(diff) \o check_code_complexity(diff)

\* RULE_REGISTRY order: size, security, import quality, complexity
run_all_rules(diff) ==
    check_pr_size(diff) \o check_security_patterns(diff)
        \o check_import_quality(diff) \o check_code_complexity(diff)

(***************************************************************************)
(* app/reviewer.py: the text of an LLM response                            *)
(* A JSON scalar is [k, s, n]: k its kind, s its text when it is a string, *)
(* n its number (hundredths for confidence).  k = "numstr" is a string     *)
(* holding a number, k = "missing" an absent key.                          *)
(***************************************************************************)
CONFIDENCE_THRESHOLD == 70

Missing == [k |-> "missing", s |-> "", n |-> 0]
Null == [k |-> "null", s |-> "", n |-> 0]
Str(x) == [k |-> "str", s |-> x, n |-> 0]
Num(x) == [k |-> "num", s |-> "", n |-> x]
NumStr(x) == [k |-> "numstr", s |-> "", n |-> x]

\* an element of the response array; shape is "object" for a JSON object
Obj(type, severity, message, confidence, action, line_number) ==
    [shape |-> "object", type |-> type, severity |-> severity, message |-> message,
     confidence |-> confidence, action |-> action, line_number |-> line_number]
NonObj(shape) ==
    [shape |-> shape, type |-> Missing, severity |-> Missing, message |-> Missing,
     confidence |-> Missing, action |-> Missing, line_number |-> Missing]

\* a JSON value: an array with its elements, or another kind of value
JArray(items) == [k |-> "array", items |-> items]
JOther(kind) == [k |-> kind, items |-> <<>>]

\* tokens of a response text
Ws == [t |-> "ws", s |-> "", v |-> JOther("none")]
Fence == [t |-> "fence", s |-> "", v |-> JOther("none")]
Tag(x) == [t |-> "tag", s |-> x, v |-> JOther("none")]
Text == [t |-> "text", s |-> "", v |-> JOther("none")]
Value(v) == [t |-> "value", s |-> "", v |-> v]

\* content is a str holding toks, or not a str at all (None, a list of blocks)
StrContent(toks) == [str |-> TRUE, toks |-> toks]
NonStrContent == [str |-> FALSE, toks |-> <<>>]

(***************************************************************************)
(* app/models.py: validation of an item by the Issue schema (pydantic 2,   *)
(* lax mode: a numeric string is accepted for a float)                     *)
(***************************************************************************)
\* variant: le=1.0 left out
ConfidenceValid_NoUpper(c) == c.k \in {"num", "numstr"} /\ c.n >= 0

ConfidenceValid(c) == c.k \in {"num", "numstr"} /\ c.n >= 0 /\ c.n <= 100

LineNumberValid(l) == l.k \in {"missing", "null", "num"}

IssueValid(item) ==
    /\ item.shape = "object"
    /\ item.type.k = "str"
    /\ item.severity.k = "str" /\ item.severity.s \in Severities
    /\ item.message.k = "str"
    /\ ConfidenceValid(item.confidence)
    /\ item.action.k = "str" /\ item.action.s \in Actions
    /\ LineNumberValid(item.line_number)

\* the Issue constructed from a valid item
IssueOf(item) ==
    MkIssue(item.type.s, item.severity.s, <<item.message.s>>, item.confidence.n,
            item.action.s,
            IF item.line_number.k = "num" THEN <<item.line_number.n>> ELSE <<>>)

(***************************************************************************)
(* app/reviewer.py: _parse_llm_output                                      *)
(***************************************************************************)
Ok(issues) == [kind |-> "ok", issues |-> issues]
Raise(kind) == [kind |-> kind, issues |-> <<>>]

RECURSIVE LStrip(_)
LStrip(toks) == IF toks # <<>> /\ Head(toks).t = "ws" THEN LStrip(Tail(toks)) ELSE toks

RECURSIVE RStrip(_)
RStrip(toks) ==
    IF toks # <<>> /\ toks[Len(toks)].t = "ws"
    THEN RStrip(SubSeq(toks, 1, Len(toks) - 1)) ELSE toks

\* str.strip()
Strip(toks) == RStrip(LStrip(toks))

\* the text up to the first fence
RECURSIVE UpToFence(_)
UpToFence(toks) ==
    IF toks = <<>> \/ Head(toks).t = "fence" THEN <<>>
    ELSE <<Head(toks)>> \o UpToFence(Tail(toks))

\* content.split("```")[1] of a text that starts with a fence
SplitFenceSecond(toks) == UpToFence(Tail(toks))

\* lines 222-225: drop the fence and a leading "json"
StripFence(toks) ==
    IF toks # <<>> /\ Head(toks).t = "fence"
    THEN LET part == SplitFenceSecond(toks)
         IN  IF part # <<>> /\ Head(part) = Tag("json") THEN Tail(part) ELSE part
    ELSE toks

\* json.loads: whitespace around exactly one JSON value, else JSONDecodeError
JsonLoads(toks) ==
    LET body == Strip(toks)
    IN  IF Len(body) = 1 /\ body[1].t = "value"
        THEN [ok |-> TRUE, v |-> body[1].v]
        ELSE [ok |-> FALSE, v |-> JOther("none")]

\* variant: an invalid element ends the loop (break for continue)
RECURSIVE ValidateItems_Abort(_)
ValidateItems_Abort(items) ==
    IF items = <<>> THEN <<>>
    ELSE IF ~IssueValid(Head(items)) THEN <<>>
    ELSE (IF IssueOf(Head(items)).confidence >= CONFIDENCE_THRESHOLD
          THEN <<IssueOf(Head(items))>> ELSE <<>>) \o ValidateItems_Abort(Tail(items))

\* variant: > for >= at the threshold
RECURSIVE ValidateItems_Strict(_)
ValidateItems_Strict(items) ==
    IF items = <<>> THEN <<>>
    ELSE (IF IssueValid(Head(items))
             /\ IssueOf(Head(items)).confidence > CONFIDENCE_THRESHOLD
          THEN <<IssueOf(Head(items))>> ELSE <<>>) \o ValidateItems_Strict(Tail(items))

\* lines 233-243: the loop over issues_data
RECURSIVE ValidateItems(_)
ValidateItems(items) ==
    IF items = <<>> THEN <<>>
    ELSE (IF IssueValid(Head(items))
             /\ IssueOf(Head(items)).confidence >= CONFIDENCE_THRESHOLD
          THEN <<IssueOf(Head(items))>> ELSE <<>>) \o ValidateItems(Tail(items))

\* variant: the isinstance check of line 229 left out (the elements of a
\* value that is no list are then skipped one by one)
parse_llm_output_NoArrayCheck(content) ==
    IF ~content.str THEN Raise("LLMInvalidOutputError")
    ELSE LET issues_data == JsonLoads(StripFence(Strip(content.toks)))
         IN  IF ~issues_data.ok THEN Raise("LLMInvalidOutputError")
             ELSE Ok(ValidateItems(issues_data.v.items))

\* variant: a list left empty by the filtering is reported as invalid output
parse_llm_output_EmptyIsError(content) ==
    IF ~content.str THEN Raise("LLMInvalidOutputError")
    ELSE LET issues_data == JsonLoads(StripFence(Strip(content.toks)))
         IN  IF ~issues_data.ok THEN Raise("LLMInvalidOutputError")
             ELSE IF issues_data.v.k # "array" THEN Raise("LLMInvalidOutputError")
             ELSE IF ValidateItems(issues_data.v.items) = <<>>
                  THEN Raise("LLMInvalidOutputError")
             ELSE Ok(ValidateItems(issues_data.v.items))

parse_llm_output(content) ==
    IF ~content.str THEN Raise("LLMInvalidOutputError")
    ELSE LET issues_data == JsonLoads(StripFence(Strip(content.toks)))
         IN  IF ~issues_data.ok THEN Raise("LLMInvalidOutputError")
             ELSE IF issues_data.v.k # "array" THEN Raise("LLMInvalidOutputError")
             ELSE Ok(ValidateItems(issues_data.v.items))

(***************************************************************************)
(* app/reviewer.py: the provider paths and call_llm                        *)
(* env is what the world does during one call: whether the provider's      *)
(* client library imports, whether the credential is set, whether the      *)
(* transport answers, times out or fails otherwise, whether the text of    *)
(* the exception contains "timeout" (case-insensitive), and the response.  *)
(***************************************************************************)
Providers == {"openai", "anthropic", "local", "gemini"}

\* lines 70-97
call_openai(env) ==
    IF ~env.import_ok THEN Raise("ReviewerError")
    ELSE IF ~env.api_key THEN Raise("ReviewerError")
    ELSE IF env.transport # "response"
         THEN (IF env.msg_timeout THEN Raise("LLMTimeoutError") ELSE Raise("ReviewerError"))
    ELSE LET r == parse_llm_output(env.content)
         IN  IF r.kind = "ok" THEN r ELSE Raise("ReviewerError")

\* lines 142-179 (the second definition, which replaces the identical first one)
call_anthropic(env) ==
    IF ~env.import_ok THEN Raise("ReviewerError")
    ELSE IF ~env.api_key THEN Raise("ReviewerError")
    ELSE IF env.transport # "response" THEN Raise("ReviewerError")
    ELSE LET r == parse_llm_output(env.content)
         IN  IF r.kind = "ok" THEN r ELSE Raise("ReviewerError")

\* lines 186-214; the import of requests is outside the try
call_local(env) ==
    IF ~env.import_ok THEN Raise("Exception")
    ELSE IF env.transport = "timeout" THEN Raise("LLMTimeoutError")
    ELSE IF env.transport = "error" THEN Raise("ReviewerError")
    ELSE LET r == parse_llm_output(env.content)
         IN  IF r.kind = "ok" THEN r ELSE Raise("ReviewerError")

ReviewerErrors == {"LLMTimeoutError", "LLMInvalidOutputError", "ReviewerError"}

\* variant: the except clause of lines 63-67 left out
call_llm_NoWrap(provider, env) ==
    CASE provider = "openai" -> call_openai(env)
      [] provider = "anthropic" -> call_anthropic(env)
      [] provider = "local" -> call_local(env)
      [] OTHER -> Raise("ReviewerError")

\* lines 53-67
call_llm(provider, env) ==
    LET r == CASE provider = "openai" -> call_openai(env)
               [] provider = "anthropic" -> call_anthropic(env)
               [] provider = "local" -> call_local(env)
               [] OTHER -> Raise("ReviewerError")
    IN  IF r.kind = "ok" \/ r.kind \in ReviewerErrors THEN r ELSE Raise("ReviewerError")

(***************************************************************************)
(* app/reviewer.py: review_pr                                              *)
(***************************************************************************)
PROMPT_VERSION == "v1.0"

\* variant: a medium issue counted as high
RECURSIVE Tally_MediumAsHigh(_)
Tally_MediumAsHigh(issues) ==
    IF issues = <<>> THEN [low |-> 0, medium |-> 0, high |-> 0]
    ELSE LET rest == Tally_MediumAsHigh(SubSeq(issues, 1, Len(issues) - 1))
             sev == issues[Len(issues)].severity
         IN  [rest EXCEPT ![IF sev = "medium" THEN "high" ELSE sev] = @ + 1]

\* lines 299-301
RECURSIVE Tally(_)
Tally(issues) ==
    IF issues = <<>> THEN [low |-> 0, medium |-> 0, high |-> 0]
    ELSE LET rest == Tally(SubSeq(issues, 1, Len(issues) - 1))
             sev == issues[Len(issues)].severity
         IN  [rest EXCEPT ![sev] = @ + 1]

\* variant: the provider reported whether or not the LLM was used
ReviewOutput_AlwaysProvider(req, issues, used, name) ==
    LET severity_counts == Tally(issues)
    IN  [pr_number |-> req.pr_number,
         issues |-> issues,
         summary |-> [total_issues |-> Len(issues),
                      high_severity |-> severity_counts.high,
                      medium_severity |-> severity_counts.medium,
                      low_severity |-> severity_counts.low,
                      llm_used |-> used,
                      model_name |-> name],
         metadata |-> [prompt_version |-> PROMPT_VERSION,
                       llm_provider |-> req.llm_provider]]

\* lines 303-321 (review_time_seconds, a clock reading, is not modelled)
ReviewOutput(req, issues, used, name) ==
    LET severity_counts == Tally(issues)
    IN  [pr_number |-> req.pr_number,
         issues |-> issues,
         summary |-> [total_issues |-> Len(issues),
                      high_severity |-> severity_counts.high,
                      medium_severity |-> severity_counts.medium,
                      low_severity |-> severity_counts.low,
                      llm_used |-> used,
                      model_name |-> name],
         metadata |-> [prompt_version |-> PROMPT_VERSION,
                       llm_provider |-> IF used THEN req.llm_provider ELSE None]]

\* the except clauses of lines 286-293
Caught == {"LLMTimeoutError", "LLMInvalidOutputError", "ReviewerError"}

(***************************************************************************)
(* Inputs                                                                  *)
(***************************************************************************)
Run(toks, rep) == [toks |-> toks, rep |-> rep]

\* the empty string: one empty line
DiffEmpty == <<Run(<<>>, 1)>>
DiffContext == <<Run(<<"-", "-", "-", " ", "a/f.py">>, 1), Run(<<"+", "+", "+", " ", "b/f.py">>, 1),
                 Run(<<" ", "x = 1">>, 3)>>
DiffEvalStar == <<Run(<<"+", "result = ", "eval(">>, 1), Run(<<"+", "from utils import *">>, 1)>>
DiffSecrets == <<Run(<<"+", "password = 'x'">>, 2), Run(<<"-", "pickle.loads(">>, 1),
                 Run(<<" ", "api_key = 'x'">>, 1)>>
DiffLarge == <<Run(<<"+", "x = 1">>, 501)>>
DiffLongFunction == <<Run(<<"+", "def f(">>, 1), Run(<<"+", " ", "x = 1">>, 100)>>
DiffDemo == <<Run(<<"+", "SECRET_KEY = 'x'">>, 1), Run(<<"+", "result = ", "eval(">>, 1),
              Run(<<"+", "import hashlib">>, 1), Run(<<"+", "hashlib.md5(">>, 1),
              Run(<<"+", "from utils import *">>, 1)>>

Diffs == {DiffEmpty, DiffContext, DiffEvalStar, DiffSecrets, DiffLarge, DiffLongFunction, DiffDemo}

Models == {"gpt-4", "claude-3-sonnet"}

Requests ==
    [pr_number : {101}, diff : Diffs, use_llm : BOOLEAN,
     llm_provider : Providers, llm_model : Models]

ItemHigh == Obj(Str("security"), Str("high"), Str("m1"), Num(90), Str("review"), Num(12))
ItemAtThreshold == Obj(Str("style"), Str("low"), Str("m2"), Num(70), Str("review"), Missing)
ItemBelow == Obj(Str("style"), Str("low"), Str("m3"), Num(69), Str("review"), Null)
ItemIgnore == Obj(Str("performance"), Str("medium"), Str("m4"), Num(80), Str("ignore"), Missing)
ItemNoMessage == Obj(Str("security"), Str("high"), Missing, Num(90), Str("review"), Missing)

ItemOverConfident == Obj(Str("security"), Str("high"), Str("m5"), Num(150), Str("review"), Missing)
ItemNegative == Obj(Str("security"), Str("low"), Str("m6"), Num(-10), Str("review"), Missing)
ItemCritical == Obj(Str("security"), Str("critical"), Str("m7"), Num(90), Str("review"), Missing)
ItemFix == Obj(Str("correctness"), Str("medium"), Str("m8"), Num(90), Str("fix"), Missing)
ItemNumStr == Obj(Str("correctness"), Str("medium"), Str("m9"), NumStr(90), Str("review"), Missing)
ItemConfText == Obj(Str("correctness"), Str("medium"), Str("m10"), Str("high"), Str("review"), Missing)
ItemTypeNum == Obj(Num(5), Str("medium"), Str("m11"), Num(90), Str("review"), Missing)
ItemBadLine == Obj(Str("style"), Str("low"), Str("m12"), Num(90), Str("review"), Str("abc"))
ItemEmptyObject == Obj(Missing, Missing, Missing, Missing, Missing, Missing)

\* the elements an LLM response may hold in a review
LLMItems == {ItemHigh, ItemBelow, ItemIgnore, ItemNoMessage, ItemOverConfident,
             ItemCritical, ItemFix}

LLMContents ==
    {StrContent(<<Value(JArray(a))>>) : a \in SeqsUpTo(LLMItems, MaxLLMItems)}
    \cup {StrContent(<<Fence, Tag("json"), Ws, Value(JArray(<<ItemHigh>>)), Ws, Fence>>),
          StrContent(<<Value(JOther("object"))>>), StrContent(<<Text>>), NonStrContent}

\* the elements and the texts _parse_llm_output is applied to on its own
ParseItems ==
    {ItemHigh, ItemAtThreshold, ItemBelow, ItemIgnore, ItemNoMessage, ItemOverConfident,
     ItemNegative, ItemCritical, ItemFix, ItemNumStr, ItemConfText, ItemTypeNum,
     ItemBadLine, ItemEmptyObject, NonObj("number"), NonObj("string")}

ParseValues ==
    {JArray(a) : a \in SeqsUpTo(ParseItems, MaxItems)}
    \cup {JOther("object"), JOther("number"), JOther("string"), JOther("null")}

\* the ways a response text wraps its body b
Wrap(w, b) ==
    CASE w = 1 -> <<b>>
      [] w = 2 -> <<Ws, b, Ws>>
      [] w = 3 -> <<Fence, Tag("json"), Ws, b, Ws, Fence>>
      [] w = 4 -> <<Fence, Ws, b, Ws, Fence>>
      [] w = 5 -> <<Fence, Tag("python"), Ws, b, Ws, Fence>>
      [] w = 6 -> <<Ws, Fence, Tag("json"), b>>
      [] w = 7 -> <<Text, Ws, b>>
      [] w = 8 -> <<Fence, Tag("json"), Ws, b, Fence, Ws, Text>>
      [] w = 9 -> <<b, Ws, b>>

ParseContents ==
    {StrContent(Wrap(w, Value(v))) : w \in 1..9, v \in ParseValues}
    \cup {StrContent(<<>>), StrContent(<<Text>>), StrContent(<<Fence>>), NonStrContent}

\* the provider answers with a text
ResponseEnvs ==
    [import_ok : BOOLEAN, api_key : BOOLEAN, transport : {"response"},
     msg_timeout : {FALSE}, content : LLMContents]

\* the provider call times out or fails otherwise
FailureEnvs ==
    [import_ok : BOOLEAN, api_key : BOOLEAN, transport : {"timeout", "error"},
     msg_timeout : BOOLEAN, content : {NonStrContent}]

NoEnv == [import_ok |-> FALSE, api_key |-> FALSE, transport |-> "none",
          msg_timeout |-> FALSE, content |-> NonStrContent]

(***************************************************************************)
(* State: one call of review_pr                                            *)
(***************************************************************************)
VARIABLES pc, request, env, rule_issues, llm_issues, llm_used, model_name,
          raised, llm_calls, all_issues, output, parse_content, parse_result,
          rules_diff, rules_out, main_pc, args, world, exit_code,
          api_request, api_response

vars == <<pc, request, env, rule_issues, llm_issues, llm_used, model_name,
          raised, llm_calls, all_issues, output, parse_content, parse_result,
          rules_diff, rules_out, main_pc, args, world, exit_code,
          api_request, api_response>>

\* the state of the detectors applied on their own, and of main.py's main
rulesVars == <<rules_diff, rules_out>>
mainVars == <<main_pc, args, world, exit_code>>

\* the state of the REST layer of api.py
apiVars == <<api_request, api_response>>

reviewVars == <<request, env, rule_issues, llm_issues, llm_used, model_name,
                raised, llm_calls, all_issues, output>>

\* the detectors have not been applied on their own
NoRulesOut == [size |-> <<>>, security |-> <<>>, imports |-> <<>>, complexity |-> <<>>,
               all |-> <<>>]

RulesIdle ==
    /\ rules_diff = <<>>
    /\ rules_out = NoRulesOut

\* main has not been started; exit_code is -1 as long as the process runs
NoArgs == [accepted |-> FALSE, no_llm |-> TRUE, provider |-> "openai", model |-> "gpt-4"]
NoWorld == [pr_file |-> "missing", diff |-> <<>>, stdout_utf8 |-> FALSE,
            output_writable |-> FALSE]

MainIdle ==
    /\ main_pc = "NotStarted"
    /\ args = NoArgs
    /\ world = NoWorld
    /\ exit_code = -1

\* no request has reached the REST layer
NoApiRequest == [pr_number |-> 0, diff |-> <<>>]
NoApiResponse == [status |-> 0, issues |-> <<>>,
                  summary |-> [total_issues |-> 0, high_severity |-> 0, medium_severity |-> 0,
                               low_severity |-> 0, llm_used |-> FALSE, mode |-> None]]

ApiIdle ==
    /\ api_request = NoApiRequest
    /\ api_response = NoApiResponse

\* the state at the entry of review_pr, for a request among reqs
InitWith(reqs) ==
    /\ pc = "Start"
    /\ request \in reqs
    /\ env = NoEnv
    /\ rule_issues = <<>>
    /\ llm_issues = <<>>
    /\ llm_used = FALSE
    /\ model_name = None
    /\ raised = None
    /\ llm_calls = 0
    /\ all_issues = <<>>
    /\ output = <<>>
    /\ parse_content = NonStrContent
    /\ parse_result = <<>>
    /\ RulesIdle
    /\ MainIdle
    /\ ApiIdle

Init == InitWith(Requests)

\* lines 269-277
RunRules ==
    /\ pc = "Start"
    /\ pc' = "RulesRun"
    /\ rule_issues' = run_all_rules(request.diff)
    /\ llm_issues' = <<>>
    /\ llm_used' = FALSE
    /\ model_name' = None
    /\ UNCHANGED <<request, env, raised, llm_calls, all_issues, output, parse_content, parse_result, rulesVars, apiVars, mainVars>>

\* line 279, use_llm false
SkipLLM ==
    /\ pc = "RulesRun"
    /\ ~request.use_llm
    /\ pc' = "LLMSkipped"
    /\ UNCHANGED <<reviewVars, parse_content, parse_result, rulesVars, apiVars, mainVars>>

\* lines 280-284
LLMSucceed(e) ==
    /\ pc = "RulesRun"
    /\ request.use_llm
    /\ LET r == call_llm(request.llm_provider, e)
       IN  /\ r.kind = "ok"
           /\ llm_issues' = r.issues
    /\ llm_used' = TRUE
    /\ model_name' = request.llm_model
    /\ env' = e
    /\ llm_calls' = llm_calls + 1
    /\ pc' = "LLMSucceeded"
    /\ UNCHANGED <<request, rule_issues, raised, all_issues, output, parse_content, parse_result, rulesVars, apiVars, mainVars>>

\* variant: llm_used and model_name set before the call
LLMFail_FlagBeforeCall(e) ==
    /\ pc = "RulesRun"
    /\ request.use_llm
    /\ LET r == call_llm(request.llm_provider, e)
       IN  /\ r.kind # "ok"
           /\ raised' = r.kind
           /\ pc' = IF r.kind \in Caught THEN "LLMFailed" ELSE "Raised"
    /\ llm_used' = TRUE
    /\ model_name' = request.llm_model
    /\ env' = e
    /\ llm_calls' = llm_calls + 1
    /\ UNCHANGED <<request, rule_issues, llm_issues, all_issues, output,
                   parse_content, parse_result, rulesVars, apiVars, mainVars>>

\* variant: a failed call is made once more
LLMFail_Retry(e) ==
    /\ pc = "RulesRun"
    /\ request.use_llm
    /\ LET r == call_llm(request.llm_provider, e)
       IN  /\ r.kind # "ok"
           /\ raised' = r.kind
           /\ pc' = IF llm_calls = 0 THEN "RulesRun"
                    ELSE IF r.kind \in Caught THEN "LLMFailed" ELSE "Raised"
    /\ env' = e
    /\ llm_calls' = llm_calls + 1
    /\ UNCHANGED <<request, rule_issues, llm_issues, llm_used, model_name, all_issues, output,
                   parse_content, parse_result, rulesVars, apiVars, mainVars>>

\* lines 286-293; an exception no clause catches leaves review_pr
LLMFail(e) ==
    /\ pc = "RulesRun"
    /\ request.use_llm
    /\ LET r == call_llm(request.llm_provider, e)
       IN  /\ r.kind # "ok"
           /\ raised' = r.kind
           /\ pc' = IF r.kind \in Caught THEN "LLMFailed" ELSE "Raised"
    /\ env' = e
    /\ llm_calls' = llm_calls + 1
    /\ UNCHANGED <<request, rule_issues, llm_issues, llm_used, model_name, all_issues, output,
                   parse_content, parse_result, rulesVars, apiVars, mainVars>>

\* variant: the LLM issues first
Merge_LLMFirst ==
    /\ pc \in {"LLMSkipped", "LLMSucceeded", "LLMFailed"}
    /\ all_issues' = llm_issues \o rule_issues
    /\ pc' = "Merged"
    /\ UNCHANGED <<request, env, rule_issues, llm_issues, llm_used, model_name, raised,
                   llm_calls, output, parse_content, parse_result, rulesVars, apiVars, mainVars>>

\* line 296
Merge ==
    /\ pc \in {"LLMSkipped", "LLMSucceeded", "LLMFailed"}
    /\ all_issues' = rule_issues \o llm_issues
    /\ pc' = "Merged"
    /\ UNCHANGED <<request, env, rule_issues, llm_issues, llm_used, model_name, raised,
                   llm_calls, output, parse_content, parse_result, rulesVars, apiVars, mainVars>>

\* lines 298-321
Return ==
    /\ pc = "Merged"
    /\ output' = <<ReviewOutput(request, all_issues, llm_used, model_name)>>
    /\ pc' = "Done"
    /\ UNCHANGED <<request, env, rule_issues, llm_issues, llm_used, model_name, raised,
                   llm_calls, all_issues, parse_content, parse_result, rulesVars, apiVars, mainVars>>

\* line 281 with each thing the provider may do
GatewayReturns == pc = "RulesRun" /\ \E e \in ResponseEnvs : LLMSucceed(e)
GatewayRejects == pc = "RulesRun" /\ \E e \in ResponseEnvs : LLMFail(e)
GatewayFails == pc = "RulesRun" /\ \E e \in FailureEnvs : LLMFail(e)

Next ==
    \/ RunRules
    \/ SkipLLM
    \/ GatewayReturns
    \/ GatewayRejects
    \/ GatewayFails
    \/ Merge
    \/ Return

Spec == Init /\ [][Next]_vars

(***************************************************************************)
(* _parse_llm_output applied on its own to a response text                 *)
(***************************************************************************)
InitParse ==
    /\ pc = "ParseStart"
    /\ parse_content \in ParseContents
    /\ parse_result = <<>>
    /\ request = [pr_number |-> 101, diff |-> DiffEmpty, use_llm |-> FALSE,
                  llm_provider |-> "openai", llm_model |-> "gpt-4"]
    /\ env = NoEnv
    /\ rule_issues = <<>>
    /\ llm_issues = <<>>
    /\ llm_used = FALSE
    /\ model_name = None
    /\ raised = None
    /\ llm_calls = 0
    /\ all_issues = <<>>
    /\ output = <<>>
    /\ RulesIdle
    /\ MainIdle
    /\ ApiIdle

\* lines 217-250
ParseOutput ==
    /\ pc = "ParseStart"
    /\ parse_result' = <<parse_llm_output(parse_content)>>
    /\ pc' = "Parsed"
    /\ UNCHANGED <<reviewVars, parse_content, rulesVars, apiVars, mainVars>>

NextParse == ParseOutput

SpecParse == InitParse /\ [][NextParse]_vars

\* the requests on which the control flow of review_pr is followed to its
\* end: the flow reads use_llm and the provider, not the text of the diff
PathRequests ==
    [pr_number : {101}, diff : {DiffEmpty, DiffEvalStar}, use_llm : BOOLEAN,
     llm_provider : Providers, llm_model : {"gpt-4"}]

\* and the responses: an array of at most one element, or no array
PathResponseEnvs ==
    [import_ok : BOOLEAN, api_key : BOOLEAN, transport : {"response"},
     msg_timeout : {FALSE},
     content : {StrContent(<<Value(JArray(a))>>) : a \in SeqsUpTo(LLMItems, 1)}
               \cup {StrContent(<<Value(JOther("object"))>>), StrContent(<<Text>>), NonStrContent}]

InitPath == InitWith(PathRequests)

PathGatewayReturns == pc = "RulesRun" /\ \E e \in PathResponseEnvs : LLMSucceed(e)
PathGatewayRejects == pc = "RulesRun" /\ \E e \in PathResponseEnvs : LLMFail(e)

NextPath ==
    \/ RunRules
    \/ SkipLLM
    \/ PathGatewayReturns
    \/ PathGatewayRejects
    \/ GatewayFails
    \/ Merge
    \/ Return

\* review_pr is sequential code: a step that can be taken is taken
FairSpec == InitPath /\ [][NextPath]_vars /\ WF_vars(NextPath)

(***************************************************************************)
(* The detectors of app/rules.py applied on their own to a diff            *)
(***************************************************************************)
\* lines of a diff: added, removed, context and file-header lines, and
\* lines with a function definition
LineAdded == <<"+", "x = 1">>
LineRemoved == <<"-", "x = 1">>
LineContext == <<" ", "x = 1">>
LineHeaderNew == <<"+", "+", "+", " ", "b/app.py">>
LineHeaderOld == <<"-", "-", "-", " ", "a/app.py">>
LineDef == <<"+", "def f(">>
LineDefIndented == <<"+", " ", " ", "def f(">>
LineDefRemoved == <<"-", "def f(">>
LineDefContext == <<" ", "def f(">>
LineDefComment == <<"+", "# ", "def f(">>

\* runs around the two thresholds
CountRuns ==
    {Run(LineAdded, r) : r \in {1, COMPLEXITY_THRESHOLD - 1, COMPLEXITY_THRESHOLD, SIZE_THRESHOLD}}
    \cup {Run(LineRemoved, r) : r \in {1, SIZE_THRESHOLD}}
    \cup {Run(LineDef, r) : r \in {1, 2}}
    \cup {Run(l, 1) : l \in {LineContext, LineHeaderNew, LineHeaderOld, LineDefIndented,
                             LineDefRemoved, LineDefContext, LineDefComment, <<>>}}

\* runs with the text the patterns look for, and with text close to it
PatternRuns ==
    {Run(<<"+", "result = ", "eval(">>, r) : r \in {1, 2}}
    \cup {Run(<<"+", "from utils import *">>, r) : r \in {1, 2}}
    \cup {Run(l, 1) : l \in
            {<<"-", "eval(">>, <<" ", "EVAL (">>, <<"+", "+", "+", " ", "exec(">>,
             <<"+", "exec(", "eval(">>, <<"+", "pickle.load(">>, <<" ", "pickle.loads(">>,
             <<"+", "password = 'x'">>, <<"-", "secret_password = 'x'">>,
             <<"-", "api_key = 'x'">>, <<"+", "API-KEY='x'">>, <<" ", "secret = 'x'">>,
             <<"+", "SECRET_KEY = 'x'">>, <<"+", "hashlib.md5(">>,
             <<"+", "password = input()">>, <<"+", "evaluate(">>,
             <<"-", "from utils import *">>, <<"+", "from utils import helper">>}}

RuleRuns == CountRuns \cup PatternRuns

\* a str is at least one line; the empty str is one empty line
RuleDiffs == UNION {[1..k -> RuleRuns] : k \in 1..MaxRuns}

InitRules ==
    /\ pc = "RulesStart"
    /\ rules_diff \in RuleDiffs
    /\ rules_out = NoRulesOut
    /\ request = [pr_number |-> 101, diff |-> DiffEmpty, use_llm |-> FALSE,
                  llm_provider |-> "openai", llm_model |-> "gpt-4"]
    /\ env = NoEnv
    /\ rule_issues = <<>>
    /\ llm_issues = <<>>
    /\ llm_used = FALSE
    /\ model_name = None
    /\ raised = None
    /\ llm_calls = 0
    /\ all_issues = <<>>
    /\ output = <<>>
    /\ parse_content = NonStrContent
    /\ parse_result = <<>>
    /\ MainIdle
    /\ ApiIdle

\* each detector, and run_all_rules, applied to the diff
ApplyRules ==
    /\ pc = "RulesStart"
    /\ rules_out' = [size |-> check_pr_size(rules_diff),
                     security |-> check_security_patterns(rules_diff),
                     imports |-> check_import_quality(rules_diff),
                     complexity |-> check_code_complexity(rules_diff),
                     all |-> run_all_rules(rules_diff)]
    /\ pc' = "RulesApplied"
    /\ UNCHANGED <<reviewVars, parse_content, parse_result, rules_diff, mainVars, apiVars>>

NextRules == ApplyRules

SpecRules == InitRules /\ [][NextRules]_vars

(***************************************************************************)
(* app/main.py: main, the command-line entry point                         *)
(* args is what argparse makes of the command line; world is what the run  *)
(* finds: the PR file (missing, not a valid PRDiff, or valid with a diff), *)
(* whether stdout can encode the check mark that main prints, and whether  *)
(* the output file can be written.  exit_code is the status of the process.*)
(***************************************************************************)
\* line 97
ProviderChoices == {"openai", "anthropic", "local"}

\* a command line that argparse accepts (--pr-file given, provider among the choices)
AcceptedArgs ==
    [accepted : {TRUE}, no_llm : BOOLEAN, provider : ProviderChoices, model : {"gpt-4"}]

\* one that it rejects
RejectedArgs == {NoArgs}

MainDiffs == {DiffEmpty, DiffEvalStar, DiffSecrets}

Worlds ==
    [pr_file : {"missing", "invalid", "valid"}, diff : MainDiffs,
     stdout_utf8 : BOOLEAN, output_writable : BOOLEAN]

InitMain ==
    /\ main_pc = "Start"
    /\ args \in AcceptedArgs \cup RejectedArgs
    /\ world \in Worlds
    /\ exit_code = -1
    /\ pc = "Idle"
    /\ request = [pr_number |-> 101, diff |-> DiffEmpty, use_llm |-> FALSE,
                  llm_provider |-> "openai", llm_model |-> "gpt-4"]
    /\ env = NoEnv
    /\ rule_issues = <<>>
    /\ llm_issues = <<>>
    /\ llm_used = FALSE
    /\ model_name = None
    /\ raised = None
    /\ llm_calls = 0
    /\ all_issues = <<>>
    /\ output = <<>>
    /\ parse_content = NonStrContent
    /\ parse_result = <<>>
    /\ RulesIdle
    /\ ApiIdle

\* line 107: parse_args ends the process with status 2 (outside the try)
MainUsageError ==
    /\ main_pc = "Start"
    /\ ~args.accepted
    /\ exit_code' = 2
    /\ main_pc' = "Exited"
    /\ UNCHANGED <<pc, reviewVars, parse_content, parse_result, rulesVars, apiVars, args, world>>

\* line 107
MainParseArgs ==
    /\ main_pc = "Start"
    /\ args.accepted
    /\ main_pc' = "Load"
    /\ UNCHANGED <<pc, reviewVars, parse_content, parse_result, rulesVars, apiVars, args, world, exit_code>>

\* line 112 raises FileNotFoundError, JSONDecodeError or ValidationError;
\* lines 139-147
MainLoadFails ==
    /\ main_pc = "Load"
    /\ world.pr_file # "valid"
    /\ exit_code' = 1
    /\ main_pc' = "Exited"
    /\ UNCHANGED <<pc, reviewVars, parse_content, parse_result, rulesVars, apiVars, args, world>>

\* line 113 raises UnicodeEncodeError; lines 143-147
MainLoadedPrintFails ==
    /\ main_pc = "Load"
    /\ world.pr_file = "valid"
    /\ ~world.stdout_utf8
    /\ exit_code' = 1
    /\ main_pc' = "Exited"
    /\ UNCHANGED <<pc, reviewVars, parse_content, parse_result, rulesVars, apiVars, args, world>>

\* lines 111-122: the PR is loaded and review_pr is called
MainLoad ==
    /\ main_pc = "Load"
    /\ world.pr_file = "valid"
    /\ world.stdout_utf8
    /\ request' = [pr_number |-> 101, diff |-> world.diff, use_llm |-> ~args.no_llm,
                   llm_provider |-> args.provider, llm_model |-> args.model]
    /\ pc' = "Start"
    /\ main_pc' = "Review"
    /\ UNCHANGED <<env, rule_issues, llm_issues, llm_used, model_name, raised, llm_calls,
                   all_issues, output, parse_content, parse_result, rulesVars, apiVars, args, world,
                   exit_code>>

\* line 125, once review_pr has returned
MainPrintSummary ==
    /\ main_pc = "Review"
    /\ pc = "Done"
    /\ main_pc' = "Save"
    /\ UNCHANGED <<pc, reviewVars, parse_content, parse_result, rulesVars, apiVars, args, world, exit_code>>

\* variant: the exit status follows the high-severity count
MainSave_FailOnHigh ==
    /\ main_pc = "Save"
    /\ world.output_writable
    /\ exit_code' = IF output[1].summary.high_severity > 0 THEN 1 ELSE 0
    /\ main_pc' = "Exited"
    /\ UNCHANGED <<pc, reviewVars, parse_content, parse_result, rulesVars, apiVars, args, world>>

\* lines 128-137: the output is written, the warning printed, 0 returned
MainSave ==
    /\ main_pc = "Save"
    /\ world.output_writable
    /\ exit_code' = 0
    /\ main_pc' = "Exited"
    /\ UNCHANGED <<pc, reviewVars, parse_content, parse_result, rulesVars, apiVars, args, world>>

\* line 128 raises (PermissionError, IsADirectoryError, ...); lines 143-147
MainSaveFails ==
    /\ main_pc = "Save"
    /\ ~world.output_writable
    /\ exit_code' = 1
    /\ main_pc' = "Exited"
    /\ UNCHANGED <<pc, reviewVars, parse_content, parse_result, rulesVars, apiVars, args, world>>

\* main with the steps of review_pr between MainLoad and MainPrintSummary
NextMain ==
    \/ MainUsageError
    \/ MainParseArgs
    \/ MainLoadFails
    \/ MainLoadedPrintFails
    \/ MainLoad
    \/ RunRules
    \/ SkipLLM
    \/ PathGatewayReturns
    \/ PathGatewayRejects
    \/ GatewayFails
    \/ Merge
    \/ Return
    \/ MainPrintSummary
    \/ MainSave
    \/ MainSaveFails

SpecMain == InitMain /\ [][NextMain]_vars

(***************************************************************************)
(* api.py: the REST layer, with its own inline rule checks                 *)
(* An issue is a dict with the keys type, severity, message, confidence    *)
(* and action.                                                             *)
(***************************************************************************)
ApiIssue(type, severity, message, confidence, action) ==
    [type |-> type, severity |-> severity, message |-> message,
     confidence |-> confidence, action |-> action]

\* patterns of api.py, in dictionary (insertion) order
ApiPatterns == <<"eval", "exec", "password", "api_key", "SECRET_KEY", "md5", "pickle">>

ApiPatternMessage(p) ==
    CASE p = "eval" -> <<"Use of eval() detected - security risk">>
      [] p = "exec" -> <<"Use of exec() detected - security risk">>
      [] p = "password" -> <<"Possible hardcoded password">>
      [] p = "api_key" -> <<"Possible hardcoded API key">>
      [] p = "SECRET_KEY" -> <<"Hardcoded secret key detected">>
      [] p = "md5" -> <<"MD5 is broken - use SHA256 or bcrypt">>
      [] p = "pickle" -> <<"pickle.load() is unsafe - use safer alternatives">>

ApiPatternSeverity(p) == IF p = "pickle" THEN "medium" ELSE "high"

\* the fragments of the model that the pattern matches under re.IGNORECASE
ApiPatternMatches(p) ==
    CASE p = "eval" -> {"eval(", "EVAL ("}
      [] p = "exec" -> {"exec("}
      [] p = "password" -> {"password = 'x'", "secret_password = 'x'"}
      [] p = "api_key" -> {"api_key = 'x'", "API-KEY='x'", "apikey = 'x'"}
      [] p = "SECRET_KEY" -> {"SECRET_KEY = 'x'"}
      [] p = "md5" -> {"hashlib.md5("}
      [] p = "pickle" -> {"pickle.load(", "pickle.loads("}

\* lines 21-36
RECURSIVE ApiSecurityScan(_, _)
ApiSecurityScan(diff, pats) ==
    IF pats = <<>> THEN <<>>
    ELSE LET p == Head(pats)
         IN  (IF SearchDiff(diff, ApiPatternMatches(p))
              THEN <<ApiIssue("security", ApiPatternSeverity(p), ApiPatternMessage(p), 100, "review")>>
              ELSE <<>>) \o ApiSecurityScan(diff, Tail(pats))

api_check_security_patterns(diff) == ApiSecurityScan(diff, ApiPatterns)

\* lines 39-46; <<>> is None
api_check_pr_size(diff) ==
    LET lines == LineCount(diff, {i \in DOMAIN diff : IsChangedLine(diff[i].toks)})
    IN  IF lines > SIZE_THRESHOLD
        THEN <<ApiIssue("pr_size", "medium", <<"PR has", ToString(lines), "lines changed">>, 100, "review")>>
        ELSE <<>>

\* lines 49-55
api_check_import_quality(diff) ==
    IF SearchDiff(diff, StarImports)
    THEN <<ApiIssue("style", "low", <<"Star import (import *) detected. Use explicit imports.">>, 90, "review")>>
    ELSE <<>>

\* lines 58-68
run_review(diff) ==
    LET issues == api_check_pr_size(diff) \o api_check_security_patterns(diff)
                      \o api_check_import_quality(diff)
    IN  [issues |-> issues,
         counts |-> [s \in Severities |->
                        Cardinality({i \in DOMAIN issues : issues[i].severity = s})]]

\* the diffs posted: those of the detectors, the demo diff and a long function
ApiDiffs == RuleDiffs \cup {DiffDemo, DiffLongFunction, DiffSecrets}

ApiRequests == [pr_number : {101}, diff : ApiDiffs]

InitApi ==
    /\ pc = "ApiStart"
    /\ api_request \in ApiRequests
    /\ api_response = NoApiResponse
    /\ request = [pr_number |-> 101, diff |-> DiffEmpty, use_llm |-> FALSE,
                  llm_provider |-> "openai", llm_model |-> "gpt-4"]
    /\ env = NoEnv
    /\ rule_issues = <<>>
    /\ llm_issues = <<>>
    /\ llm_used = FALSE
    /\ model_name = None
    /\ raised = None
    /\ llm_calls = 0
    /\ all_issues = <<>>
    /\ output = <<>>
    /\ parse_content = NonStrContent
    /\ parse_result = <<>>
    /\ RulesIdle
    /\ MainIdle

\* lines 97-98: an empty diff is refused with status 400
ReviewRejects ==
    /\ pc = "ApiStart"
    /\ api_request.diff = DiffEmpty
    /\ api_response' = [NoApiResponse EXCEPT !.status = 400]
    /\ pc' = "ApiResponded"
    /\ UNCHANGED <<reviewVars, parse_content, parse_result, rulesVars, mainVars, api_request>>

\* lines 100-114
ReviewResponds ==
    /\ pc = "ApiStart"
    /\ api_request.diff # DiffEmpty
    /\ LET r == run_review(api_request.diff)
       IN  api_response' =
               [status |-> 200,
                issues |-> r.issues,
                summary |-> [total_issues |-> Len(r.issues),
                             high_severity |-> r.counts["high"],
                             medium_severity |-> r.counts["medium"],
                             low_severity |-> r.counts["low"],
                             llm_used |-> FALSE,
                             mode |-> "rule-based"]]
    /\ pc' = "ApiResponded"
    /\ UNCHANGED <<reviewVars, parse_content, parse_result, rulesVars, mainVars, api_request>>

NextApi ==
    \/ ReviewRejects
    \/ ReviewResponds

SpecApi == InitApi /\ [][NextApi]_vars

(***************************************************************************)
(* Properties                                                              *)
(***************************************************************************)
Returned == pc = "Done" /\ Len(output) = 1

\* the issues of the response's text as far as call_llm handed them on
GatewayIssues ==
    IF llm_used THEN call_llm(request.llm_provider, env).issues ELSE <<>>

\* C1: when the gateway fails with Timeout, InvalidOutput or ProviderError,
\* review_pr does not fail, and the output it returns has llm_used false and
\* exactly the issues of run_all_rules(request.diff), in order.
C1_Degradation ==
    (request.use_llm /\ raised \in {"LLMTimeoutError", "LLMInvalidOutputError", "ReviewerError"}) =>
        /\ pc \in {"LLMFailed", "Merged", "Done"}
        /\ pc = "Done" =>
              /\ Len(output) = 1
              /\ output[1].summary.llm_used = FALSE
              /\ output[1].issues = run_all_rules(request.diff)

C1_Witness ==
    /\ Returned
    /\ raised = "LLMTimeoutError"
    /\ Len(output[1].issues) >= 2

\* C2: every call follows Start -> RulesRun -> one of LLMSkipped, LLMSucceeded,
\* LLMFailed -> Merged -> Done; the rules run first whatever use_llm is,
\* LLMSkipped is taken iff use_llm is false, no failure leaves review_pr, and
\* Done is eventually reached with an output.
C2_PathStep ==
    /\ pc = "Start" =>
          pc' = "RulesRun" /\ rule_issues' = run_all_rules(request.diff) /\ llm_calls' = 0
    /\ pc = "RulesRun" =>
          /\ pc' \in {"LLMSkipped", "LLMSucceeded", "LLMFailed"}
          /\ (pc' = "LLMSkipped") <=> ~request.use_llm
    /\ pc \in {"LLMSkipped", "LLMSucceeded", "LLMFailed"} => pc' = "Merged"
    /\ pc = "Merged" => pc' = "Done" /\ Len(output') = 1
    /\ pc # "Done"

C2_Path == [][C2_PathStep]_vars /\ <>(pc = "Done" /\ Len(output) = 1)

C2_Witness ==
    /\ Returned
    /\ request.llm_provider = "local"
    /\ ~env.import_ok
    /\ llm_calls = 1
    /\ raised = "ReviewerError"

\* C3: the issues of an output are the rule issues followed by the LLM
\* issues, each in its own order, nothing dropped or deduplicated.
C3_Concatenation ==
    pc = "Done" =>
        LET o == output[1].issues
            r == run_all_rules(request.diff)
            l == GatewayIssues
        IN  /\ Len(o) = Len(r) + Len(l)
            /\ \A i \in 1..Len(r) : o[i] = r[i]
            /\ \A j \in 1..Len(l) : o[Len(r) + j] = l[j]

C3_Witness ==
    /\ Returned
    /\ Len(rule_issues) >= 2
    /\ Len(llm_issues) = 2
    /\ llm_issues[1] = llm_issues[2]
    /\ Len(output[1].issues) = Len(rule_issues) + 2

SeverityCount(issues, sev) == Cardinality({i \in DOMAIN issues : issues[i].severity = sev})

\* C4: total_issues is the number of issues, each severity count is the
\* number of issues of that severity, and the three counts add up to the total.
C4_SummaryCounts ==
    pc = "Done" =>
        LET o == output[1]
        IN  /\ o.summary.total_issues = Len(o.issues)
            /\ o.summary.high_severity = SeverityCount(o.issues, "high")
            /\ o.summary.medium_severity = SeverityCount(o.issues, "medium")
            /\ o.summary.low_severity = SeverityCount(o.issues, "low")
            /\ o.summary.high_severity + o.summary.medium_severity
                   + o.summary.low_severity = o.summary.total_issues

C4_Witness ==
    /\ Returned
    /\ output[1].summary.high_severity >= 2
    /\ output[1].summary.medium_severity >= 1
    /\ output[1].summary.low_severity >= 1

\* C5: llm_used is true, model_name the requested model and llm_provider the
\* requested provider iff use_llm was true and call_llm returned (also with no
\* issue); otherwise llm_used is false and both are None.  prompt_version is
\* in every output.
C5_LLMFields ==
    pc = "Done" =>
        LET o == output[1]
            succeeded == /\ request.use_llm
                         /\ llm_calls = 1
                         /\ call_llm(request.llm_provider, env).kind = "ok"
        IN  /\ o.summary.llm_used <=> succeeded
            /\ succeeded => /\ o.summary.model_name = request.llm_model
                            /\ o.metadata.llm_provider = request.llm_provider
            /\ ~succeeded => /\ o.summary.model_name = None
                             /\ o.metadata.llm_provider = None
            /\ o.metadata.prompt_version = "v1.0"

C5_Witness ==
    /\ Returned
    /\ output[1].summary.llm_used
    /\ llm_issues = <<>>
    /\ output[1].summary.model_name = "claude-3-sonnet"
    /\ output[1].metadata.llm_provider = "anthropic"

\* C6: every issue of an output has confidence in [0,1], severity in
\* {low, medium, high} and action in {review, ignore}, whatever the LLM returned.
C6_IssueConstraints ==
    pc = "Done" =>
        \A i \in DOMAIN output[1].issues :
            LET issue == output[1].issues[i]
            IN  /\ issue.confidence >= 0 /\ issue.confidence <= 100
                /\ issue.severity \in {"low", "medium", "high"}
                /\ issue.action \in {"review", "ignore"}

C6_Witness ==
    /\ Returned
    /\ env.content = StrContent(<<Value(JArray(<<ItemOverConfident, ItemHigh>>))>>)
    /\ llm_used
    /\ Len(rule_issues) >= 1
    /\ output[1].issues[Len(output[1].issues)] = IssueOf(ItemHigh)

\* C7 as stated: every issue of every output has action "review".
C7_AlwaysReview ==
    pc = "Done" => \A i \in DOMAIN output[1].issues : output[1].issues[i].action = "review"

\* C7 as amended: every issue of the rule detectors has action "review"; an
\* issue taken from LLM output has the action the LLM gave it, "review" or
\* "ignore".
C7_RuleIssuesReview ==
    pc = "Done" =>
        LET o == output[1].issues
            n == Len(run_all_rules(request.diff))
        IN  /\ n <= Len(o)
            /\ \A i \in 1..n : o[i].action = "review"
            /\ \A i \in (n + 1)..Len(o) : o[i].action \in {"review", "ignore"}

C7_Witness ==
    /\ Returned
    /\ Len(run_all_rules(request.diff)) >= 1
    /\ output[1].issues[Len(output[1].issues)].action = "ignore"

IsNotWs(tok) == tok.t # "ws"

\* the text left after stripping whitespace and the fence is a JSON array
IsArrayText(content) ==
    /\ content.str
    /\ LET body == SelectSeq(StripFence(Strip(content.toks)), IsNotWs)
       IN  Len(body) = 1 /\ body[1].t = "value" /\ body[1].v.k = "array"

ArrayItems(content) == SelectSeq(StripFence(Strip(content.toks)), IsNotWs)[1].v.items

\* C8: a text that is not valid JSON, or whose top-level value is no array,
\* makes _parse_llm_output fail with InvalidOutput; no list is returned.
C8_InvalidOutput ==
    (pc = "Parsed" /\ ~IsArrayText(parse_content)) =>
        /\ parse_result[1].kind = "LLMInvalidOutputError"
        /\ parse_result[1].issues = <<>>

C8_Witness ==
    /\ pc = "Parsed"
    /\ parse_content = StrContent(Wrap(3, Value(JOther("object"))))
    /\ parse_result[1].kind = "LLMInvalidOutputError"

\* C9: for a JSON array every element is validated on its own: an invalid
\* element is dropped without failing, and the result is the valid elements
\* at or above the threshold, in the order of the array.
C9_ElementwiseValidation ==
    (pc = "Parsed" /\ IsArrayText(parse_content)) =>
        LET items == ArrayItems(parse_content)
            out == parse_result[1].issues
            kept == {i \in DOMAIN items :
                        IssueValid(items[i]) /\ IssueOf(items[i]).confidence >= CONFIDENCE_THRESHOLD}
            nth(k) == CHOOSE i \in kept : Cardinality({j \in kept : j <= i}) = k
        IN  /\ parse_result[1].kind = "ok"
            /\ Len(out) = Cardinality(kept)
            /\ \A k \in 1..Len(out) : out[k] = IssueOf(items[nth(k)])

C9_Witness ==
    /\ pc = "Parsed"
    /\ parse_content = StrContent(<<Value(JArray(<<NonObj("number"), ItemHigh>>))>>)
    /\ parse_result[1] = Ok(<<IssueOf(ItemHigh)>>)

Range(seq) == {seq[i] : i \in DOMAIN seq}

\* C10: of the valid elements exactly those with confidence strictly below
\* 0.7 are dropped: one at 0.7 is kept, one below is dropped, and every
\* issue returned has confidence >= 0.7.
C10_Threshold ==
    (pc = "Parsed" /\ IsArrayText(parse_content)) =>
        LET items == ArrayItems(parse_content)
            out == parse_result[1].issues
        IN  /\ \A k \in DOMAIN out : out[k].confidence >= 70
            /\ \A i \in DOMAIN items :
                  IssueValid(items[i]) =>
                      (IssueOf(items[i]) \in Range(out) <=> items[i].confidence.n >= 70)

C10_Witness ==
    /\ pc = "Parsed"
    /\ parse_content = StrContent(<<Value(JArray(<<ItemAtThreshold, ItemBelow>>))>>)
    /\ parse_result[1] = Ok(<<IssueOf(ItemAtThreshold)>>)

\* the text is one fenced block: the opening fence, an optional language tag,
\* a JSON array and the closing fence
IsFencedArray(content) ==
    /\ content.str
    /\ LET t == content.toks
           inner == SelectSeq(SubSeq(t, 2, Len(t) - 1), IsNotWs)
       IN  /\ Len(t) >= 3
           /\ t[1] = Fence
           /\ t[Len(t)] = Fence
           /\ \/ Len(inner) = 1 /\ inner[1].t = "value" /\ inner[1].v.k = "array"
              \/ Len(inner) = 2 /\ inner[1].t = "tag"
                                /\ inner[2].t = "value" /\ inner[2].v.k = "array"

\* the array inside the fenced block
FencedArray(content) ==
    LET inner == SelectSeq(SubSeq(content.toks, 2, Len(content.toks) - 1), IsNotWs)
    IN  inner[Len(inner)]

\* C11: a JSON array in a fenced code block, with no language tag or with
\* any language tag after the opening fence, parses to the same issue list
\* as the same array without the fence.
C11_FenceAnyTag ==
    (pc = "Parsed" /\ IsFencedArray(parse_content)) =>
        parse_result[1] = parse_llm_output(StrContent(<<FencedArray(parse_content)>>))

SupportedProviders == {"openai", "anthropic", "local"}

\* call_llm was called and the provider's client got as far as the request
RequestSent ==
    /\ request.use_llm
    /\ llm_calls = 1
    /\ request.llm_provider \in SupportedProviders
    /\ env.import_ok
    /\ request.llm_provider = "local" \/ env.api_key

\* C12: on each of the three provider paths, a provider call that does not
\* complete within the timeout makes call_llm fail with LLMTimeoutError.
C12_TimeoutKind ==
    (RequestSent /\ env.transport = "timeout") => raised = "LLMTimeoutError"

\* C13: a provider failure that is no timeout (a missing credential, an
\* unsupported provider, a client library that is not installed, a transport
\* or auth error whatever its message) leaves call_llm as ReviewerError
\* proper, never as LLMTimeoutError and never unclassified.
C13_ProviderErrorKind ==
    (/\ request.use_llm
     /\ llm_calls = 1
     /\ \/ request.llm_provider \notin SupportedProviders
        \/ ~env.import_ok
        \/ request.llm_provider \in {"openai", "anthropic"} /\ ~env.api_key
        \/ RequestSent /\ env.transport = "error")
        => raised = "ReviewerError"

RuleKinds == {"pr_size", "security", "style", "complexity"}

\* a value an Issue of a detector may have
IsRuleIssue(x) ==
    /\ x.type \in RuleKinds
    /\ x.severity \in Severities
    /\ x.confidence \in 0..100
    /\ x.action \in Actions
    /\ x.line_number = <<>>

\* C14: run_all_rules returns a list of issues for every diff, a diff of one
\* line without terminator included, and for the empty diff every detector
\* produces no issue, so that the list is empty.
C14_RulesTotal ==
    pc = "RulesApplied" =>
        /\ rules_out.all \in Seq({x \in Range(rules_out.all) : IsRuleIssue(x)})
        /\ Len(rules_out.all) <= Len(SecurityPatterns) + 3
        /\ rules_diff = DiffEmpty =>
              /\ rules_out.all = <<>>
              /\ rules_out.size = <<>>
              /\ rules_out.security = <<>>
              /\ rules_out.imports = <<>>
              /\ rules_out.complexity = <<>>

C14_Witness ==
    /\ pc = "RulesApplied"
    /\ rules_diff = DiffEmpty
    /\ rules_out.all = <<>>

\* the number of lines that begin with one of the marks but not with three
\* of it in a row
MarkedLines(diff, marks) ==
    Sum([i \in DOMAIN diff |->
            LET l == diff[i].toks
            IN  IF /\ l # <<>>
                   /\ l[1] \in marks
                   /\ ~(Len(l) >= 3 /\ l[2] = l[1] /\ l[3] = l[1])
                THEN diff[i].rep ELSE 0])

\* C15: check_pr_size emits exactly one pr_size issue (medium, confidence 1.0,
\* the count in its message) iff the number of lines beginning with + or -
\* but not with +++ or --- is strictly greater than 500; with exactly 500
\* such lines it emits nothing, and file-header lines are not counted.
C15_SizeBoundary ==
    pc = "RulesApplied" =>
        LET n == MarkedLines(rules_diff, {"+", "-"})
            out == rules_out.size
        IN  IF n > 500
            THEN /\ Len(out) = 1
                 /\ out[1].type = "pr_size"
                 /\ out[1].severity = "medium"
                 /\ out[1].confidence = 100
                 /\ ToString(n) \in Range(out[1].message)
            ELSE out = <<>>

C15_Witness ==
    /\ pc = "RulesApplied"
    /\ rules_diff = <<Run(LineHeaderNew, 1), Run(LineAdded, 500)>>
    /\ rules_out.size = <<>>

\* C16: check_security_patterns emits exactly one issue for each pattern of
\* its set that matches anywhere in the diff, on whatever kind of line and
\* however often, and none for a pattern that does not match; each issue is
\* of kind security with confidence 1.0 and action review, and its severity
\* is high, except medium for unsafe deserialization (pickle).
C16_OnePerPattern ==
    pc = "RulesApplied" =>
        LET out == rules_out.security
            found == {p \in Range(SecurityPatterns) :
                        \E i \in DOMAIN rules_diff :
                            Range(rules_diff[i].toks) \cap PatternMatches(p) # {}}
        IN  /\ Len(out) = Cardinality(found)
            /\ \A p \in Range(SecurityPatterns) :
                  Cardinality({k \in DOMAIN out : out[k].message = PatternMessage(p)})
                      = IF p \in found THEN 1 ELSE 0
            /\ \A k \in DOMAIN out :
                  /\ out[k].type = "security"
                  /\ out[k].confidence = 100
                  /\ out[k].action = "review"
                  /\ out[k].severity =
                        IF out[k].message = PatternMessage("pickle") THEN "medium" ELSE "high"

C16_Witness ==
    /\ pc = "RulesApplied"
    /\ rules_diff = <<Run(<<"-", "eval(">>, 1), Run(<<" ", "pickle.loads(">>, 1)>>
    /\ Len(rules_out.security) = 2
    /\ rules_out.security[1].severity = "high"
    /\ rules_out.security[2].severity = "medium"

\* C17: for the diff with a hardcoded SECRET_KEY, an eval( call, a use of
\* hashlib.md5 and a wildcard import, review_pr with the LLM disabled
\* returns a summary with high_severity >= 3, low_severity >= 1 and
\* llm_used false.
C17_DemoSummary ==
    (Returned /\ request.diff = DiffDemo /\ ~request.use_llm) =>
        /\ output[1].summary.high_severity >= 3
        /\ output[1].summary.low_severity >= 1
        /\ output[1].summary.llm_used = FALSE

\* an added line that opens a function definition: +, blanks, def name(
OpensFunction(line) ==
    /\ Len(line) >= 2
    /\ line[1] = "+"
    /\ \E j \in 2..Len(line) :
          /\ line[j] = "def f("
          /\ \A k \in 2..(j - 1) : line[k] = " "

AddedDefs(diff) ==
    Sum([i \in DOMAIN diff |-> IF OpensFunction(diff[i].toks) THEN diff[i].rep ELSE 0])

\* C18: check_code_complexity emits exactly one complexity issue (medium,
\* confidence 0.8) iff the number of lines beginning with + (not +++) is
\* strictly greater than 100 and exactly one of them opens a function
\* definition; with exactly 100 added lines, with no definition, or with two
\* or more definitions, it emits nothing.
C18_Complexity ==
    pc = "RulesApplied" =>
        LET added == MarkedLines(rules_diff, {"+"})
            out == rules_out.complexity
        IN  IF added > 100 /\ AddedDefs(rules_diff) = 1
            THEN /\ Len(out) = 1
                 /\ out[1].type = "complexity"
                 /\ out[1].severity = "medium"
                 /\ out[1].confidence = 80
            ELSE out = <<>>

C18_Witness ==
    /\ pc = "RulesApplied"
    /\ rules_diff = <<Run(LineDefIndented, 1), Run(LineAdded, 100)>>
    /\ Len(rules_out.complexity) = 1

\* C19: check_import_quality emits exactly one style issue (low, confidence
\* 0.9, action review) when the diff holds at least one wildcard import
\* "from <module> import *", however many, and no issue when it holds none.
C19_StarImport ==
    pc = "RulesApplied" =>
        LET stars == {i \in DOMAIN rules_diff :
                        "from utils import *" \in Range(rules_diff[i].toks)}
            out == rules_out.imports
        IN  IF stars # {}
            THEN /\ Len(out) = 1
                 /\ out[1].type = "style"
                 /\ out[1].severity = "low"
                 /\ out[1].confidence = 90
                 /\ out[1].action = "review"
            ELSE out = <<>>

C19_Witness ==
    /\ pc = "RulesApplied"
    /\ rules_diff = <<Run(<<"+", "from utils import *">>, 2), Run(<<"-", "from utils import *">>, 1)>>
    /\ Len(rules_out.imports) = 1

\* C20 as claimed: the exit code is 1 only when loading or parsing the request
\* file fails and 0 otherwise; once the request is loaded, no later step
\* (review, printing, writing the output file) changes it.
C20_ExitOnlyOnLoad ==
    (main_pc = "Exited" /\ args.accepted) =>
        exit_code = IF world.pr_file = "valid" THEN 0 ELSE 1

\* C20: for a command line that argparse accepts, the exit code is 0 when
\* the request file is loaded and every later step inside main's try block
\* (the prints, review_pr, writing the output file) completes, whatever the
\* number of high-severity issues, and 1 when any of them raises; a command
\* line that argparse rejects ends with 2.
C20_ExitCode ==
    main_pc = "Exited" =>
        exit_code = IF ~args.accepted THEN 2
                    ELSE IF /\ world.pr_file = "valid"
                            /\ world.stdout_utf8
                            /\ world.output_writable
                         THEN 0
                         ELSE 1

C20_Witness ==
    /\ main_pc = "Exited"
    /\ exit_code = 0
    /\ Returned
    /\ output[1].summary.high_severity >= 1

\* the provider answered with a text that is not valid JSON or whose
\* top-level value is no array
InvalidResponse ==
    /\ RequestSent
    /\ env.transport = "response"
    /\ ~IsArrayText(env.content)

\* C21: when a provider returns a text that is not valid JSON or whose
\* top-level value is no array, call_llm fails with LLMInvalidOutputError on
\* each of the three provider paths, and that is the kind review_pr sees.
C21_InvalidOutputKind ==
    InvalidResponse => raised = "LLMInvalidOutputError"

\* the provider answered with a JSON array of which no element survives:
\* each fails the schema or is below the confidence threshold, or there is none
AllDroppedResponse ==
    /\ RequestSent
    /\ env.transport = "response"
    /\ IsArrayText(env.content)
    /\ \A i \in DOMAIN ArrayItems(env.content) :
          LET item == ArrayItems(env.content)[i]
          IN  ~IssueValid(item) \/ item.confidence.n < 70

\* C22: a response that is a JSON array of which every element is dropped,
\* the empty array included, is a successful parse to the empty list: no
\* failure is raised, and review_pr goes on with llm_used true and no LLM
\* issue, so that its output holds the rule issues alone.
C22_EmptyIsSuccess ==
    AllDroppedResponse =>
        /\ parse_llm_output(env.content) = Ok(<<>>)
        /\ raised = None
        /\ llm_used
        /\ llm_issues = <<>>
        /\ pc \in {"LLMSucceeded", "Merged", "Done"}
        /\ pc = "Done" =>
              /\ output[1].summary.llm_used
              /\ output[1].issues = rule_issues

C22_Witness ==
    /\ Returned
    /\ env.transport = "response"
    /\ env.content = StrContent(<<Value(JArray(<<ItemBelow, ItemNoMessage>>))>>)
    /\ llm_issues = <<>>
    /\ output[1].summary.llm_used

\* C23: one call of review_pr calls the LLM gateway at most once: not at all
\* before the rules have run or when use_llm is false, exactly once when
\* use_llm is true, and not again after a timeout, an invalid output or a
\* provider error.
C23_AtMostOneCall ==
    /\ llm_calls <= 1
    /\ pc \in {"Start", "RulesRun"} => llm_calls = 0
    /\ ~request.use_llm => llm_calls = 0
    /\ (request.use_llm /\ pc \in {"LLMSucceeded", "LLMFailed", "Merged", "Done"}) => llm_calls = 1
    /\ raised # None => (llm_calls = 1 /\ pc # "RulesRun")

C23_Witness ==
    /\ Returned
    /\ raised = "ReviewerError"
    /\ llm_calls = 1

\* the place of a detector in the registry, by the kind of issue it emits
KindRank(kind) ==
    CASE kind = "pr_size" -> 1
      [] kind = "security" -> 2
      [] kind = "style" -> 3
      [] kind = "complexity" -> 4

\* the place of a security issue's pattern in dangerous_patterns
MessageRank(message) ==
    CHOOSE k \in DOMAIN SecurityPatterns : PatternMessage(SecurityPatterns[k]) = message

IssueProfile(issues) ==
    [i \in DOMAIN issues |-> <<issues[i].type, issues[i].severity, issues[i].confidence>>]

\* what review_pr returns for the posted diff with the LLM disabled
CoreOutput ==
    ReviewOutput([pr_number |-> api_request.pr_number, diff |-> api_request.diff,
                  use_llm |-> FALSE, llm_provider |-> "openai", llm_model |-> "gpt-4"],
                 run_all_rules(api_request.diff), FALSE, None)

\* C25: for every non-empty diff, the issue list (kinds, severities,
\* confidences, order) and the severity counts that POST /review returns
\* equal those of review_pr for the same diff with the LLM disabled.
C25_ThinWrapper ==
    (pc = "ApiResponded" /\ api_response.status = 200) =>
        /\ IssueProfile(api_response.issues) = IssueProfile(CoreOutput.issues)
        /\ api_response.summary.total_issues = CoreOutput.summary.total_issues
        /\ api_response.summary.high_severity = CoreOutput.summary.high_severity
        /\ api_response.summary.medium_severity = CoreOutput.summary.medium_severity
        /\ api_response.summary.low_severity = CoreOutput.summary.low_severity

====
